---- MODULE Spec2Model ----
(***************************************************************************)
(* Model of the MCP host (mcp-host/index.js), the MCP client it drives     *)
(* (mcp-client, class MCPClient) and the Node-RED node's discovery and     *)
(* selection code (node-red-contrib-mcp-tools/mcp-tools.js).               *)
(*                                                                         *)
(* The host is a single-threaded event loop: a handler runs atomically     *)
(* from one `await` to the next.  Every action below is one such atomic    *)
(* stretch; the value of pc names the await a request is suspended at.     *)
(* The resolution of an awaited promise and the continuation of its        *)
(* awaiter are taken as one step.                                          *)
(*                                                                         *)
(* Time is measured in units of the sweep interval (5 minutes).  Only the  *)
(* difference now - lastActivity is ever read by the code, so the model    *)
(* keeps that difference (field idle), saturated just above maxAge.        *)
(***************************************************************************)
EXTENDS Integers, Sequences, FiniteSets, TLC

\* ------------------------------------------------------------------ bounds
MaxToolCalls == 2   \* tool calls in one model turn, one request at a time
PoolToolCalls == 1  \* tool calls in one model turn, two concurrent requests
MaxOthers == 1      \* other available servers listed in allServersDiscovery

\* ------------------------------------------------------- program constants
maxAge == 2         \* 10 minutes = 2 sweep intervals

\* ----------------------------------------------------------------- inputs
Requests == {"r1", "r2"}              \* HTTP requests, named in arrival order
SessionIds == {"s1"}
ApiKeys == {"", "k1"}                 \* "" : no apiKey in the request
Commands == {"npx", "node"}
ArgLists == {<<"srv.js">>}

VARIABLES
    mcpClients,   \* the Map: sequence of [key, ref] in insertion order
    infos,        \* clientInfo objects: ref -> [connected, idle]
    clients,      \* MCPClient objects: ref -> [isConnected, live, detached]
    rq,           \* per request: handler position and locals
    disc          \* one discoverAllMCPServers call of the node and its probes

vars == <<mcpClients, infos, clients, rq, disc>>

\* ---------------------------------------------------------------- strings
Includes(s, p) ==
    \E i \in 1..(Len(s) - Len(p) + 1) : SubSeq(s, i, i + Len(p) - 1) = p

StartsWith(s, p) == Len(s) >= Len(p) /\ SubSeq(s, 1, Len(p)) = p

RECURSIVE Join(_, _)
Join(args, sep) ==
    IF args = <<>> THEN ""
    ELSE IF Len(args) = 1 THEN args[1]
    ELSE args[1] \o sep \o Join(Tail(args), sep)

Max(a, b) == IF a >= b THEN a ELSE b
Min(a, b) == IF a <= b THEN a ELSE b

\* ------------------------------------------------------------ session pool
clientKey(sessionId, apiKey, serverCommand, serverArgs) ==
    sessionId \o "_" \o apiKey \o "_" \o serverCommand \o "_" \o Join(serverArgs, "_")

PoolKeys(mc) == {mc[i].key : i \in 1..Len(mc)}
PoolHas(mc, k) == k \in PoolKeys(mc)
PoolGet(mc, k) == (CHOOSE i \in 1..Len(mc) : mc[i].key = k)
PoolRef(mc, k) == mc[PoolGet(mc, k)].ref
PoolDelete(mc, k) == SelectSeq(mc, LAMBDA e : e.key # k)

NewInfo == [connected |-> FALSE, idle |-> 0]
NewClient == [isConnected |-> FALSE, live |-> 0, detached |-> 0]

getMCPClient_sharedClient(mc, inf, cl, k) ==
    LET fresh == ~PoolHas(mc, k)
        alloc == fresh /\ Len(inf) = 0
        ref == IF fresh THEN Max(Len(inf), 1) ELSE PoolRef(mc, k)
        inf1 == IF alloc THEN Append(inf, NewInfo) ELSE inf
    IN  [mc |-> IF fresh THEN Append(mc, [key |-> k, ref |-> ref]) ELSE mc,
         inf |-> [inf1 EXCEPT ![ref].idle = 0],
         cl |-> IF alloc THEN Append(cl, NewClient) ELSE cl,
         ref |-> ref]

getMCPClient_noStamp(mc, inf, cl, k) ==
    LET fresh == ~PoolHas(mc, k)
        ref == IF fresh THEN Len(inf) + 1 ELSE PoolRef(mc, k)
    IN  [mc |-> IF fresh THEN Append(mc, [key |-> k, ref |-> ref]) ELSE mc,
         inf |-> IF fresh THEN Append(inf, NewInfo) ELSE inf,
         cl |-> IF fresh THEN Append(cl, NewClient) ELSE cl,
         ref |-> ref]

\* getMCPClient: the pool, the clientInfo objects and the MCPClient objects
\* after the call, and the reference it returns
getMCPClient(mc, inf, cl, k) ==
    LET fresh == ~PoolHas(mc, k)
        ref == IF fresh THEN Len(inf) + 1 ELSE PoolRef(mc, k)
        inf1 == IF fresh THEN Append(inf, NewInfo) ELSE inf
    IN  [mc |-> IF fresh THEN Append(mc, [key |-> k, ref |-> ref]) ELSE mc,
         inf |-> [inf1 EXCEPT ![ref].idle = 0],
         cl |-> IF fresh THEN Append(cl, NewClient) ELSE cl,
         ref |-> ref]

\* ---------------------------------------------------------------- requests
NoRequest ==
    [kind |-> "none", pc |-> "idle", cmd |-> "", ref |-> 0, attempt |-> 0,
     tmpLeft |-> 0, allTools |-> 0, log |-> <<>>, calls |-> <<>>, idx |-> 0,
     toolResults |-> <<>>, messages |-> <<>>, todo |-> <<>>, resp |-> <<>>,
     body |-> <<>>, closed |-> <<>>,
     mcpTools |-> <<>>, nameMapping |-> <<>>, modelCalls |-> <<>>,
     dispatched |-> <<>>, prompt |-> FALSE]

Failure(status, msg) ==
    [status |-> status, success |-> FALSE, response |-> "null",
     toolsUsed |-> <<>>, error |-> msg]

Success(content, used) ==
    [status |-> 200, success |-> TRUE, response |-> content,
     toolsUsed |-> used, error |-> "none"]

\* the message of the error thrown by the n-th connect attempt of a request
ConnectError(n) == IF n = 1 THEN "connect failed (1)" ELSE "connect failed (2)"

NoSelection == [serverName |-> "", serverConfig |-> <<>>, reason |-> ""]

NoDiscovery ==
    [pc |-> "idle", config |-> <<>>, probes |-> <<>>, results |-> <<>>,
     prompt |-> "", selected |-> NoSelection]

Respond(q, rec) == [q EXCEPT !.pc = "done", !.resp = Append(@, rec)]

\* request r is the next to arrive
Arrives(r) ==
    /\ rq[r].pc = "idle"
    /\ r = "r2" => rq["r1"].pc # "idle"

Init ==
    /\ mcpClients = <<>>
    /\ infos = <<>>
    /\ clients = <<>>
    /\ rq = [r \in Requests |-> NoRequest]
    /\ disc = NoDiscovery

\* ---------------------------------------------------------------- MCPClient
\* MCPClient.connect up to its first await: with isConnected set it awaits
\* this.disconnect() (client.close()), otherwise it creates the transport and
\* awaits client.connect(transport), which spawns the subprocess
connectEntry(cl, ref) ==
    IF cl[ref].isConnected
    THEN [cl |-> cl, pc |-> "conn_closing"]
    ELSE [cl |-> [cl EXCEPT ![ref].live = @ + 1], pc |-> "connecting"]

\* MCPClient.disconnect after its await of client.close(): a failure is logged
\* and swallowed and leaves isConnected set
closeDone(cl, ref, ok) ==
    IF ok
    THEN [cl EXCEPT ![ref].isConnected = FALSE, ![ref].live = Max(@ - 1, 0)]
    ELSE cl

\* a call of MCPClient.connect by the handler of request record q
ConnectCall(q, cl) ==
    LET e == connectEntry(cl, q.ref)
    IN  [q |-> [q EXCEPT !.pc = e.pc, !.attempt = @ + 1,
                         !.log = Append(@, "connect")],
         cl |-> e.cl]

ExecutePromptEntry_escapes(q, cl) ==
    IF ~cl[q.ref].isConnected
    THEN [q EXCEPT !.pc = "escaped"]
    ELSE [q EXCEPT !.pc = "listing"]

\* MCPClient.executePrompt up to its first await: the isConnected test throws
\* before the try block, the rejection is caught by the handler's catch
ExecutePromptEntry(q, cl) ==
    IF ~cl[q.ref].isConnected
    THEN Respond(q, Failure(500, "Erro interno do servidor"))
    ELSE [q EXCEPT !.pc = "listing"]

\* the handler's loop over the other servers of allServersDiscovery, from the
\* top of an iteration to the next await; after the loop, executePrompt
TempLoop(q, cl) ==
    IF q.tmpLeft > 0
    THEN [q EXCEPT !.pc = "tmp_connecting", !.tmpLeft = @ - 1]
    ELSE ExecutePromptEntry(q, cl)

\* GET /tools after the connection step: client.listTools()
ToolsList(q, cl) ==
    IF ~cl[q.ref].isConnected
    THEN Respond(q, Failure(500, "Cliente nao esta conectado ao servidor MCP"))
    ELSE [q EXCEPT !.pc = "listing"]

\* ------------------------------------------------------------ POST /execute
ExecPrefix == "Erro ao conectar ao servidor MCP de execucao: "

ShouldRetry_local(q) == q.attempt = 1

\* line 414, reached from the catch of the first connect only
ShouldRetry(q) == q.attempt = 1 /\ Includes(q.cmd, "npx")

ExecConnectFailure_first(q) == Failure(500, ExecPrefix \o ConnectError(1))

\* lines 424-433: the failure reported for the connect that threw last
ExecConnectFailure(q) == Failure(500, ExecPrefix \o ConnectError(q.attempt))

\* POST /execute up to its first await, for a request whose sessionId and
\* apiKey are drawn from the given sets and that lists at most maxOthers other
\* available servers
Validation_promptOnly(kind, prompt, apiKey) ==
    IF kind = "execute" /\ ~prompt THEN "Prompt e obrigatorio" ELSE ""

\* the tests on the request's fields: lines 309-321 of POST /execute, lines
\* 561-566 of GET /tools; the error of the 400 answer, or "" to go on
Validation(kind, prompt, apiKey) ==
    IF kind = "execute" /\ ~prompt THEN "Prompt e obrigatorio"
    ELSE IF apiKey = "" THEN "API Key da OpenAI e obrigatoria"
    ELSE ""

ExecStartWith(r, maxOthers, sessionIds, apiKeys, commands) ==
    /\ Arrives(r)
    /\ disc' = disc
    /\ \E prompt \in BOOLEAN, apiKey \in apiKeys, sessionId \in sessionIds,
          serverCommand \in commands, serverArgs \in ArgLists,
          others \in 0..maxOthers :
         LET q0 == [NoRequest EXCEPT !.kind = "execute", !.prompt = prompt,
                       !.body = <<sessionId, apiKey, serverCommand, serverArgs>>]
             error == Validation("execute", prompt, apiKey)
         IN  IF error # ""
             THEN /\ rq' = [rq EXCEPT ![r] = Respond(q0, Failure(400, error))]
                  /\ UNCHANGED <<mcpClients, infos, clients>>
             ELSE LET g == getMCPClient(mcpClients, infos, clients,
                               clientKey(sessionId, apiKey, serverCommand, serverArgs))
                      q1 == [q0 EXCEPT !.cmd = serverCommand, !.ref = g.ref,
                                       !.tmpLeft = others]
                      c == ConnectCall(q1, g.cl)
                  IN  /\ mcpClients' = g.mc
                      /\ infos' = g.inf
                      /\ IF ~g.inf[g.ref].connected
                         THEN /\ clients' = c.cl
                              /\ rq' = [rq EXCEPT ![r] = c.q]
                         ELSE /\ clients' = g.cl
                              /\ rq' = [rq EXCEPT ![r] = TempLoop(q1, g.cl)]

ExecStartIn(r, maxOthers, sessionIds, apiKeys) ==
    ExecStartWith(r, maxOthers, sessionIds, apiKeys, Commands)

ExecStart(r, maxOthers) == ExecStartIn(r, maxOthers, SessionIds, ApiKeys)

\* MCPClient.connect line 87: the awaited this.disconnect() has settled; the
\* transport is created and client.connect(transport) awaited
ConnClosingDone(r) ==
    /\ rq[r].pc = "conn_closing"
    /\ \E ok \in BOOLEAN :
         LET cl1 == closeDone(clients, rq[r].ref, ok)
         IN  clients' = [cl1 EXCEPT ![rq[r].ref].live = @ + 1]
    /\ rq' = [rq EXCEPT ![r].pc = "connecting"]
    /\ UNCHANGED <<mcpClients, infos, disc>>

\* the awaited client.connect(transport) has settled
ConnectDone(r) ==
    /\ rq[r].pc = "connecting"
    /\ LET q == rq[r]
           ref == q.ref
       IN  \/ \* connected: isConnected = true, then the handler sets connected
              LET cl1 == [clients EXCEPT ![ref].isConnected = TRUE]
                  q1 == [q EXCEPT !.log = Append(@, "connect_ok")]
              IN  /\ clients' = cl1
                  /\ infos' = [infos EXCEPT ![ref].connected = TRUE]
                  /\ rq' = [rq EXCEPT ![r] =
                              IF q.kind = "execute" THEN TempLoop(q1, cl1)
                              ELSE ToolsList(q1, cl1)]
           \/ \* the connect threw
              LET cl1 == [clients EXCEPT ![ref].live = Max(@ - 1, 0)]
                  q1 == [q EXCEPT !.log = Append(@, "connect_fail")]
              IN  /\ infos' = infos
                  /\ clients' = cl1
                  /\ rq' = [rq EXCEPT ![r] =
                        IF q.kind = "tools"
                        THEN Respond(q1, Failure(500, ConnectError(q.attempt)))
                        ELSE IF ShouldRetry(q)
                        THEN \* retry: await client.disconnect(), a no-op
                             \* unless the client is connected
                             [q1 EXCEPT !.pc = IF cl1[ref].isConnected
                                               THEN "retry_closing"
                                               ELSE "retry_delay",
                                        !.log = Append(@, "disconnect")]
                        ELSE Respond(q1, ExecConnectFailure(q))]
    /\ UNCHANGED <<mcpClients, disc>>

RetryClosingDone(r) ==
    /\ rq[r].pc = "retry_closing"
    /\ \E ok \in BOOLEAN : clients' = closeDone(clients, rq[r].ref, ok)
    /\ rq' = [rq EXCEPT ![r].pc = "retry_delay"]
    /\ UNCHANGED <<mcpClients, infos, disc>>

\* the fixed delay has elapsed: connect once more
RetryDelayDone(r) ==
    /\ rq[r].pc = "retry_delay"
    /\ LET c == ConnectCall([rq[r] EXCEPT !.log = Append(@, "delay")], clients)
       IN  /\ clients' = c.cl
           /\ rq' = [rq EXCEPT ![r] = c.q]
    /\ UNCHANGED <<mcpClients, infos, disc>>

\* ---- the temporary clients of the other servers (lines 442-491): every
\* error of an iteration is caught and the loop goes on
TmpConnectDone(r) ==
    /\ rq[r].pc = "tmp_connecting"
    /\ \/ rq' = [rq EXCEPT ![r].pc = "tmp_listing"]
       \/ rq' = [rq EXCEPT ![r] = TempLoop(rq[r], clients)]
    /\ UNCHANGED <<mcpClients, infos, clients, disc>>

\* listTools and listResources of the temporary client settled; its tools are
\* added to allTools unless one of them threw; await tempClient.disconnect()
TmpListDone(r) ==
    /\ rq[r].pc = "tmp_listing"
    /\ \/ rq' = [rq EXCEPT ![r].pc = "tmp_closing", ![r].allTools = @ + 1]
       \/ rq' = [rq EXCEPT ![r].pc = "tmp_closing"]
    /\ UNCHANGED <<mcpClients, infos, clients, disc>>

TmpCloseDone(r) ==
    /\ rq[r].pc = "tmp_closing"
    /\ rq' = [rq EXCEPT ![r] = TempLoop(rq[r], clients)]
    /\ UNCHANGED <<mcpClients, infos, clients, disc>>

\* ------------------------------------------------ MCPClient.executePrompt
Undefined == "undefined"

\* the characters the pattern /[^a-zA-Z0-9_-]/ leaves alone
NameChars == "abcdefghijklmnopqrstuvwxyzABCDEFGHIJKLMNOPQRSTUVWXYZ0123456789_-"

\* lines 182, 210: tool.name.replace(/[^a-zA-Z0-9_-]/g, '_')
RECURSIVE Normalize(_)
Normalize(name) ==
    IF name = "" THEN ""
    ELSE LET c == SubSeq(name, 1, 1)
         IN  (IF Includes(NameChars, c) THEN c ELSE "_")
                 \o Normalize(SubSeq(name, 2, Len(name)))

\* lines 181-196: the tools offered to the model, by their function names
OpenAiTools(mcpTools) == [i \in 1..Len(mcpTools) |-> Normalize(mcpTools[i])]

OfferedNames(mcpTools) == {Normalize(mcpTools[i]) : i \in 1..Len(mcpTools)}

\* lines 207-212: nameMapping.set(normalizedName, tool.name) for the first n
\* tools, in the order of the list; a later set replaces an earlier one
RECURSIVE NameMapping(_, _)
NameMapping(mcpTools, n) ==
    IF n = 0 THEN <<>>
    ELSE (Normalize(mcpTools[n]) :> mcpTools[n]) @@ NameMapping(mcpTools, n - 1)

\* line 249: nameMapping.get(normalizedToolName) || normalizedToolName
NameMappingGet(nameMapping, normalizedToolName) ==
    IF normalizedToolName \in DOMAIN nameMapping
    THEN nameMapping[normalizedToolName]
    ELSE normalizedToolName

\* a JSON text and JSON.parse of it; the text of a model's arguments may be
\* no JSON at all, and JSON.parse then throws
JsonText(value) == [valid |-> TRUE, value |-> value]

BadJsonText == [valid |-> FALSE, value |-> "{"]

JSONParse(text) == text.value

\* a tool call of a model turn: a function call naming one of names, with
\* arguments that parse or do not, or a call of neither format
ModelToolCalls(names) ==
    {[shape |-> "function", name |-> n, arguments |-> JsonText("args")] : n \in names}
      \cup {[shape |-> "badjson", name |-> n, arguments |-> BadJsonText] : n \in names}
      \cup {[shape |-> "unknown", name |-> "", arguments |-> BadJsonText]}

\* the tool_calls a model turn can carry
CallSeqs(max, names) == UNION {[1..n -> ModelToolCalls(names)] : n \in 0..max}

\* one call of chat.completions.create: lines 214-220 with tools, lines
\* 283-287 without
ModelCall(messages, tools, tool_choice) ==
    [messages |-> messages, tools |-> tools, tool_choice |-> tool_choice]

UserMessage == [role |-> "user", content |-> "prompt", tool_call_id |-> 0, tool_calls |-> <<>>]

AssistantMessage(calls) ==
    [role |-> "assistant", content |-> "null", tool_call_id |-> 0, tool_calls |-> calls]

\* JSON.stringify of a tool result
Stringify(output) == <<"json", output>>

ToolMessage(tr) ==
    [role |-> "tool", content |-> Stringify(tr.output),
     tool_call_id |-> tr.tool_call_id, tool_calls |-> <<>>]

RECURSIVE ToolMessages(_)
ToolMessages(trs) ==
    IF trs = <<>> THEN <<>> ELSE <<ToolMessage(Head(trs))>> \o ToolMessages(Tail(trs))

Outputs(trs) == [i \in 1..Len(trs) |-> trs[i].output]

\* lines 268-287: the two kinds of turn are appended and the follow-up call
\* is issued
FollowUp_offersTools(q) ==
    LET messages == (q.messages \o <<AssistantMessage(q.calls)>>)
                        \o ToolMessages(q.toolResults)
    IN  [q EXCEPT !.messages = messages,
                  !.modelCalls = Append(@, ModelCall(messages, OpenAiTools(q.mcpTools), "auto")),
                  !.pc = "round2",
                  !.log = Append(@, "round2")]

FollowUp(q) ==
    LET messages == (q.messages \o <<AssistantMessage(q.calls)>>)
                        \o ToolMessages(q.toolResults)
    IN  [q EXCEPT !.messages = messages,
                  !.modelCalls = Append(@, ModelCall(messages, <<>>, Undefined)),
                  !.pc = "round2",
                  !.log = Append(@, "round2")]

AfterCalls_always2(q) == FollowUp(q)

\* lines 267-302: after the dispatch loop
AfterCalls(q) ==
    IF Len(q.toolResults) > 0
    THEN FollowUp(q)
    ELSE Respond(q, Success("content1", <<>>))

\* lines 230-262: the dispatch loop from call i to its next await
RECURSIVE RunCalls(_, _)
RunCalls(q, i) ==
    IF i > Len(q.calls) THEN AfterCalls(q)
    ELSE IF q.calls[i].shape = "unknown" THEN RunCalls(q, i + 1)
    ELSE IF ~q.calls[i].arguments.valid
    THEN Respond(q, Failure(200, "Unexpected token in JSON"))
    ELSE LET toolArgs == JSONParse(q.calls[i].arguments)
             originalToolName == NameMappingGet(q.nameMapping, q.calls[i].name)
         IN  [q EXCEPT !.pc = "calling", !.idx = i, !.log = Append(@, "call"),
                       !.dispatched = Append(@, [name |-> originalToolName,
                                                 arguments |-> toolArgs,
                                                 tool_call_id |-> i])]

\* lines 178-220: the tools are converted, the conversation opened, the name
\* mapping built and the first model call issued
FirstRound(q, mcpTools) ==
    [q EXCEPT !.pc = "round1",
              !.mcpTools = mcpTools,
              !.messages = <<UserMessage>>,
              !.nameMapping = NameMapping(mcpTools, Len(mcpTools)),
              !.modelCalls = Append(@, ModelCall(<<UserMessage>>,
                                                 OpenAiTools(mcpTools), "auto")),
              !.log = Append(@, "round1")]

\* the awaited listTools settled (POST /execute inside executePrompt, or
\* GET /tools); the server lists one of toolLists
ListToolsDoneIn(r, toolLists) ==
    /\ rq[r].pc = "listing"
    /\ LET q == rq[r]
       IN  \/ /\ q.kind = "execute"
              /\ \E mcpTools \in toolLists :
                    rq' = [rq EXCEPT ![r] = FirstRound(q, mcpTools)]
           \/ /\ q.kind # "execute"
              /\ rq' = [rq EXCEPT ![r] = Respond(q, Success("tools", <<>>))]
           \/ rq' = [rq EXCEPT ![r] =
                  Respond(q, Failure(IF q.kind = "execute" THEN 200 ELSE 500,
                                     "listTools failed"))]
    /\ UNCHANGED <<mcpClients, infos, clients, disc>>

\* a server listing one tool whose name needs no normalisation
PlainToolLists == {<<"search">>}

ListToolsDone(r) == ListToolsDoneIn(r, PlainToolLists)

Round1DoneIn_noWait(r, max, others) ==
    /\ rq[r].pc = "round1"
    /\ \/ \E calls \in CallSeqs(max, OfferedNames(rq[r].mcpTools) \cup others) :
            LET q1 == RunCalls([rq[r] EXCEPT !.calls = calls,
                                             !.log = Append(@, "round1_ok")], 1)
            IN  rq' = [rq EXCEPT ![r] = IF q1.pc = "calling" THEN FollowUp(q1) ELSE q1]
       \/ rq' = [rq EXCEPT ![r] = Respond(rq[r], Failure(200, "model call failed"))]
    /\ UNCHANGED <<mcpClients, infos, clients, disc>>

\* the first model call settled; the turn carries at most max tool calls,
\* naming the functions it was offered or one of others
Round1DoneIn(r, max, others) ==
    /\ rq[r].pc = "round1"
    /\ \/ \E calls \in CallSeqs(max, OfferedNames(rq[r].mcpTools) \cup others) :
            rq' = [rq EXCEPT ![r] =
                     RunCalls([rq[r] EXCEPT !.calls = calls,
                                            !.log = Append(@, "round1_ok")], 1)]
       \/ rq' = [rq EXCEPT ![r] = Respond(rq[r], Failure(200, "model call failed"))]
    /\ UNCHANGED <<mcpClients, infos, clients, disc>>

Round1Done(r, max) == Round1DoneIn(r, max, {})

CallDone_retriesRejected(r) ==
    /\ rq[r].pc = "calling"
    /\ LET q == rq[r]
       IN  \/ \E isError \in BOOLEAN :
                LET tr == [tool_call_id |-> q.idx,
                           output |-> [isError |-> isError, call |-> q.idx]]
                IN  rq' = [rq EXCEPT ![r] =
                        RunCalls([q EXCEPT !.toolResults = Append(@, tr),
                                           !.log = Append(@, IF isError THEN "call_error"
                                                             ELSE "call_ok")],
                                 q.idx + 1)]
           \/ /\ Len(q.dispatched) <= Len(q.calls)
              /\ rq' = [rq EXCEPT ![r] =
                     RunCalls([q EXCEPT !.log = Append(@, "call_rejected")], q.idx)]
           \/ /\ Len(q.dispatched) > Len(q.calls)
              /\ rq' = [rq EXCEPT ![r] =
                     Respond([q EXCEPT !.log = Append(@, "call_rejected")],
                             Failure(200, "tool call failed"))]
    /\ UNCHANGED <<mcpClients, infos, clients, disc>>

CallDone_throwsOnError(r) ==
    /\ rq[r].pc = "calling"
    /\ LET q == rq[r]
       IN  \/ LET tr == [tool_call_id |-> q.idx,
                         output |-> [isError |-> FALSE, call |-> q.idx]]
              IN  rq' = [rq EXCEPT ![r] =
                      RunCalls([q EXCEPT !.toolResults = Append(@, tr),
                                         !.log = Append(@, "call_ok")],
                               q.idx + 1)]
           \/ rq' = [rq EXCEPT ![r] =
                  Respond([q EXCEPT !.log = Append(@, "call_error")],
                          Failure(200, "tool returned an error"))]
           \/ rq' = [rq EXCEPT ![r] =
                  Respond([q EXCEPT !.log = Append(@, "call_rejected")],
                          Failure(200, "tool call failed"))]
    /\ UNCHANGED <<mcpClients, infos, clients, disc>>

\* the awaited client.callTool settled: a result, a result carrying the
\* server's error payload, or a rejection (request failed or timed out)
CallDone(r) ==
    /\ rq[r].pc = "calling"
    /\ LET q == rq[r]
       IN  \/ \E isError \in BOOLEAN :
                LET tr == [tool_call_id |-> q.idx,
                           output |-> [isError |-> isError, call |-> q.idx]]
                IN  rq' = [rq EXCEPT ![r] =
                        RunCalls([q EXCEPT !.toolResults = Append(@, tr),
                                           !.log = Append(@, IF isError THEN "call_error"
                                                             ELSE "call_ok")],
                                 q.idx + 1)]
           \/ rq' = [rq EXCEPT ![r] =
                  Respond([q EXCEPT !.log = Append(@, "call_rejected")],
                          Failure(200, "tool call failed"))]
    /\ UNCHANGED <<mcpClients, infos, clients, disc>>

\* the follow-up model call settled
Round2Done(r) ==
    /\ rq[r].pc = "round2"
    /\ \/ rq' = [rq EXCEPT ![r] =
              Respond([rq[r] EXCEPT !.log = Append(@, "round2_ok")],
                      Success("content2", Outputs(rq[r].toolResults)))]
       \/ rq' = [rq EXCEPT ![r] = Respond(rq[r], Failure(200, "model call failed"))]
    /\ UNCHANGED <<mcpClients, infos, clients, disc>>

\* the tool lists of a server whose names need normalisation: a name with a
\* blank, and two names that differ in one character the pattern replaces
ToolLists ==
    {<<"web search">>, <<"get.data", "get_data">>, <<"get_data", "get.data">>}

\* a function name the model was not offered
OtherNames == {"other"}

\* one /execute over a server of ToolLists
NextNames ==
    \/ ExecStart("r1", 0)
    \/ ConnectDone("r1")
    \/ RetryDelayDone("r1")
    \/ ListToolsDoneIn("r1", ToolLists)
    \/ Round1DoneIn("r1", MaxToolCalls, OtherNames)
    \/ CallDone("r1")
    \/ Round2Done("r1")

SpecNames == Init /\ [][NextNames]_vars

\* ---------------------------------------------------------------- GET /tools
ToolsStart(r) ==
    /\ Arrives(r)
    /\ disc' = disc
    /\ \E apiKey \in ApiKeys, sessionId \in SessionIds,
          serverCommand \in Commands, serverArgs \in ArgLists :
         LET q0 == [NoRequest EXCEPT !.kind = "tools",
                       !.body = <<sessionId, apiKey, serverCommand, serverArgs>>]
             error == Validation("tools", FALSE, apiKey)
         IN  IF error # ""
             THEN /\ rq' = [rq EXCEPT ![r] = Respond(q0, Failure(400, error))]
                  /\ UNCHANGED <<mcpClients, infos, clients>>
             ELSE LET g == getMCPClient(mcpClients, infos, clients,
                               clientKey(sessionId, apiKey, serverCommand, serverArgs))
                      q1 == [q0 EXCEPT !.cmd = serverCommand, !.ref = g.ref]
                      c == ConnectCall(q1, g.cl)
                  IN  /\ mcpClients' = g.mc
                      /\ infos' = g.inf
                      /\ IF ~g.inf[g.ref].connected
                         THEN /\ clients' = c.cl
                              /\ rq' = [rq EXCEPT ![r] = c.q]
                         ELSE /\ clients' = g.cl
                              /\ rq' = [rq EXCEPT ![r] = ToolsList(q1, g.cl)]

\* --------------------------------------------------------- POST /disconnect
DisconnectOk(n) ==
    [status |-> 200, success |-> TRUE, response |-> "disconnected",
     toolsUsed |-> <<>>, error |-> "none", disconnectedClients |-> n]

\* lines 693-704: the loop over clientsToDisconnect up to its next await
RECURSIVE DiscRun(_, _, _, _)
DiscRun(q, mc, inf, cl) ==
    IF q.todo = <<>>
    THEN [q |-> Respond(q, DisconnectOk(q.idx)), mc |-> mc]
    ELSE LET k == Head(q.todo)
         IN  IF ~PoolHas(mc, k)
             THEN \* mcpClients.get(key) is undefined: TypeError, caught
                  [q |-> Respond(q, Failure(500, "Cannot read properties of undefined")),
                   mc |-> mc]
             ELSE LET ref == PoolRef(mc, k)
                  IN  IF inf[ref].connected /\ cl[ref].isConnected
                      THEN [q |-> [q EXCEPT !.pc = "d_closing", !.ref = ref], mc |-> mc]
                      ELSE DiscRun([q EXCEPT !.todo = Tail(@)], PoolDelete(mc, k), inf, cl)

MatchingKeys(mc, sessionId) ==
    LET hit == SelectSeq(mc, LAMBDA e : StartsWith(e.key, sessionId \o "_"))
    IN  [i \in 1..Len(hit) |-> hit[i].key]

DisconnectStartIn(r, sessionIds) ==
    /\ Arrives(r)
    /\ \E sessionId \in sessionIds :
         LET todo == MatchingKeys(mcpClients, sessionId)
             q0 == [NoRequest EXCEPT !.kind = "disconnect", !.todo = todo,
                                     !.idx = Len(todo), !.body = <<sessionId>>]
             d == DiscRun(q0, mcpClients, infos, clients)
         IN  /\ rq' = [rq EXCEPT ![r] = d.q]
             /\ mcpClients' = d.mc
    /\ UNCHANGED <<infos, clients, disc>>

DisconnectStart(r) == DisconnectStartIn(r, SessionIds)

\* the awaited clientInfo.client.disconnect() settled: delete the key, go on
DisconnectCloseDone(r) ==
    /\ rq[r].pc = "d_closing"
    /\ \E ok \in BOOLEAN :
         LET cl1 == closeDone(clients, rq[r].ref, ok)
             q1 == [rq[r] EXCEPT !.todo = Tail(@)]
             d == DiscRun(q1, PoolDelete(mcpClients, Head(rq[r].todo)), infos, cl1)
         IN  /\ clients' = cl1
             /\ rq' = [rq EXCEPT ![r] = d.q]
             /\ mcpClients' = d.mc
    /\ UNCHANGED <<infos, disc>>

\* ----------------------------------------------------- process.on('SIGINT')
\* The handler occupies a request slot.  The iterator of mcpClients.entries()
\* is live: entries are visited in insertion order, which is the order of their
\* references, and field idx holds the reference visited last.
\* lines 717-727: the loop from the entry after idx to its next await, or to
\* process.exit(0)
RECURSIVE SigintRun(_, _, _, _)
SigintRun(q, mc, inf, cl) ==
    LET rest == SelectSeq(mc, LAMBDA e : e.ref > q.idx)
    IN  IF rest = <<>>
        THEN [q EXCEPT !.pc = "exited"]
        ELSE LET ref == Head(rest).ref
             IN  IF inf[ref].connected /\ cl[ref].isConnected
                 THEN [q EXCEPT !.pc = "s_closing", !.idx = ref, !.ref = ref,
                                !.closed = Append(@, ref)]
                 ELSE IF inf[ref].connected
                 THEN SigintRun([q EXCEPT !.idx = ref, !.closed = Append(@, ref)],
                                mc, inf, cl)
                 ELSE SigintRun([q EXCEPT !.idx = ref], mc, inf, cl)

SigintStart(r) ==
    /\ Arrives(r)
    /\ rq' = [rq EXCEPT ![r] =
                SigintRun([NoRequest EXCEPT !.kind = "sigint"],
                          mcpClients, infos, clients)]
    /\ UNCHANGED <<mcpClients, infos, clients, disc>>

\* the awaited clientInfo.client.disconnect() settled; an error is caught
SigintCloseDone(r) ==
    /\ rq[r].pc = "s_closing"
    /\ \E ok \in BOOLEAN :
         LET cl1 == closeDone(clients, rq[r].ref, ok)
         IN  /\ clients' = cl1
             /\ rq' = [rq EXCEPT ![r] = SigintRun(rq[r], mcpClients, infos, cl1)]
    /\ UNCHANGED <<mcpClients, infos, disc>>

\* process.exit(0) has not been called
Alive == \A r \in Requests : rq[r].pc # "exited"

\* ------------------------------------------------------------- time, sweep
Expired(inf, e) == inf[e.ref].idle > maxAge

\* five minutes pass
Tick ==
    /\ \E i \in 1..Len(mcpClients) : ~Expired(infos, mcpClients[i])
    /\ infos' = [ref \in 1..Len(infos) |->
                   IF \E i \in 1..Len(mcpClients) : mcpClients[i].ref = ref
                   THEN [infos[ref] EXCEPT !.idle = Min(@ + 1, maxAge + 1)]
                   ELSE infos[ref]]
    /\ UNCHANGED <<mcpClients, clients, rq, disc>>

Sweep_stopsAtFirst ==
    /\ \E i \in 1..Len(mcpClients) : Expired(infos, mcpClients[i])
    /\ LET first == CHOOSE i \in 1..Len(mcpClients) :
                        /\ Expired(infos, mcpClients[i])
                        /\ \A j \in 1..(i - 1) : ~Expired(infos, mcpClients[j])
           ref == mcpClients[first].ref
       IN  /\ clients' = IF clients[ref].isConnected
                          THEN [clients EXCEPT ![ref].detached = @ + 1]
                          ELSE clients
           /\ mcpClients' = SelectSeq(mcpClients, LAMBDA e : e.ref # ref)
    /\ UNCHANGED <<infos, rq, disc>>

\* the setInterval callback: client.disconnect() is called and not awaited, so
\* a client.close() is left in flight when the client is connected
Sweep ==
    /\ \E i \in 1..Len(mcpClients) : Expired(infos, mcpClients[i])
    /\ LET old == {mcpClients[i].ref : i \in {j \in 1..Len(mcpClients) : Expired(infos, mcpClients[j])}}
       IN  /\ clients' = [ref \in 1..Len(clients) |->
                            IF ref \in old /\ clients[ref].isConnected
                            THEN [clients[ref] EXCEPT !.detached = @ + 1]
                            ELSE clients[ref]]
           /\ mcpClients' = SelectSeq(mcpClients, LAMBDA e : ~Expired(infos, e))
    /\ UNCHANGED <<infos, rq, disc>>

\* a client.close() the sweep left in flight settled
SweepCloseDone(ref) ==
    /\ clients[ref].detached > 0
    /\ \E ok \in BOOLEAN :
         clients' = [closeDone(clients, ref, ok) EXCEPT ![ref].detached = @ - 1]
    /\ UNCHANGED <<mcpClients, infos, rq, disc>>

\* -------------------------------------------------------------------- spec
\* two concurrent requests of any kind, the clock and the sweep; the execute
\* requests list no other server (the temporary clients of the other servers
\* touch nothing shared) and a model turn carries at most PoolToolCalls calls
Next ==
    \/ \E r \in Requests :
         \/ ExecStart(r, 0)
         \/ ToolsStart(r)
         \/ DisconnectStart(r)
         \/ ConnClosingDone(r)
         \/ ConnectDone(r)
         \/ RetryClosingDone(r)
         \/ RetryDelayDone(r)
         \/ ListToolsDone(r)
         \/ Round1Done(r, PoolToolCalls)
         \/ CallDone(r)
         \/ Round2Done(r)
         \/ DisconnectCloseDone(r)
    \/ Tick
    \/ Sweep
    \/ \E ref \in 1..Len(clients) : SweepCloseDone(ref)

Spec == Init /\ [][Next]_vars

\* one request at a time: POST /execute from arrival to response, the
\* clock and the sweep
NextBridge ==
    \/ ExecStart("r1", MaxOthers)
    \/ ConnectDone("r1")
    \/ RetryDelayDone("r1")
    \/ TmpConnectDone("r1")
    \/ TmpListDone("r1")
    \/ TmpCloseDone("r1")
    \/ ListToolsDone("r1")
    \/ Round1Done("r1", MaxToolCalls)
    \/ CallDone("r1")
    \/ Round2Done("r1")
    \/ Tick
    \/ Sweep
    \/ \E ref \in 1..Len(clients) : SweepCloseDone(ref)

SpecBridge == Init /\ [][NextBridge]_vars

\* two requests over the pool, each /execute also connecting temporary
\* clients to the other servers of its discovery
NextOwnership ==
    \/ \E r \in Requests :
         \/ ExecStart(r, MaxOthers)
         \/ DisconnectStart(r)
         \/ ConnClosingDone(r)
         \/ ConnectDone(r)
         \/ RetryClosingDone(r)
         \/ RetryDelayDone(r)
         \/ TmpConnectDone(r)
         \/ TmpListDone(r)
         \/ TmpCloseDone(r)
         \/ ListToolsDone(r)
         \/ Round1Done(r, 0)
         \/ DisconnectCloseDone(r)
    \/ Tick
    \/ Sweep
    \/ \E ref \in 1..Len(clients) : SweepCloseDone(ref)

SpecOwnership == Init /\ [][NextOwnership]_vars

\* requests of two sessions, the id of one being a prefix of the other's, with
\* apiKeys that contain the separator of the key; no tool calls, no sweep
SessionIdsWide == {"s1", "s1_k1"}
ApiKeysWide == {"k1", "k1_k1"}

NextSessions ==
    \/ \E r \in Requests :
         \/ ExecStartIn(r, 0, SessionIdsWide, ApiKeysWide)
         \/ DisconnectStartIn(r, SessionIdsWide)
         \/ ConnClosingDone(r)
         \/ ConnectDone(r)
         \/ RetryClosingDone(r)
         \/ RetryDelayDone(r)
         \/ ListToolsDone(r)
         \/ Round1Done(r, 0)
         \/ DisconnectCloseDone(r)

SpecSessions == Init /\ [][NextSessions]_vars

\* the host after two /execute of session s1 were answered, one per command:
\* two connected sessions in the pool and no request in progress
InitPooled ==
    /\ mcpClients = <<[key |-> clientKey("s1", "k1", "npx", <<"srv.js">>), ref |-> 1],
                      [key |-> clientKey("s1", "k1", "node", <<"srv.js">>), ref |-> 2]>>
    /\ infos = <<[connected |-> TRUE, idle |-> 0], [connected |-> TRUE, idle |-> 0]>>
    /\ clients = <<[isConnected |-> TRUE, live |-> 1, detached |-> 0],
                   [isConnected |-> TRUE, live |-> 1, detached |-> 0]>>
    /\ rq = [r \in Requests |-> NoRequest]
    /\ disc = NoDiscovery

\* two /disconnect over that pool, the clock and the sweep
NextPooled ==
    \/ \E r \in Requests :
         \/ DisconnectStart(r)
         \/ DisconnectCloseDone(r)
    \/ Tick
    \/ Sweep
    \/ \E ref \in 1..Len(clients) : SweepCloseDone(ref)

SpecPooled == InitPooled /\ [][NextPooled]_vars

\* two handlers, of POST /execute or of SIGINT; nothing runs after the exit
NextShutdown ==
    \E r \in Requests :
        \/ Alive /\ ExecStart(r, 0)
        \/ Alive /\ SigintStart(r)
        \/ Alive /\ ConnClosingDone(r)
        \/ Alive /\ ConnectDone(r)
        \/ Alive /\ RetryClosingDone(r)
        \/ Alive /\ RetryDelayDone(r)
        \/ Alive /\ ListToolsDone(r)
        \/ Alive /\ Round1Done(r, 0)
        \/ Alive /\ SigintCloseDone(r)

SpecShutdown == Init /\ [][NextShutdown]_vars

\* ============================================================== discovery
\* The node's discoverAllMCPServers and, on the host, the POST /test-connection
\* handlers its probes start.
MaxServers == 2

ServerNames == <<"exa", "default", "gdrive">>

\* the server configurations a node can be given: command 'npx' or 'node', no
\* command at all, and args that are not an array
ServerConfigs ==
    {[command |-> "npx", args |-> "array"],
     [command |-> "node", args |-> "array"],
     [command |-> Undefined, args |-> "array"],
     [command |-> "node", args |-> "string"]}

\* mcpServersConfig as its entries in key order, of at most max servers
McpServersConfigsUpTo(max) ==
    UNION {{[i \in 1..k |-> [name |-> ServerNames[i], config |-> f[i]]] :
                f \in [1..k -> ServerConfigs]} : k \in 1..max}

McpServersConfigs == McpServersConfigsUpTo(MaxServers)

ToolCounts == {0, 2}

Field(rec, f, default) == IF f \in DOMAIN rec THEN rec[f] ELSE default

\* the responses of POST /test-connection
NoResponse == [status |-> 0]

OkResponse(tools) ==
    [status |-> 200, success |-> TRUE, message |-> "Connection test successful",
     toolsCount |-> tools, resourcesCount |-> 1]

CapabilityFailedResponse ==
    [status |-> 200, success |-> TRUE,
     message |-> "Connected but capability discovery failed",
     warning |-> "capabilityError", toolsCount |-> 0, resourcesCount |-> 0,
     validForExecution |-> TRUE]

ConnectionFailedResponse ==
    [status |-> 500, success |-> FALSE, error |-> "Connection test failed"]

InternalErrorResponse ==
    [status |-> 500, success |-> FALSE,
     error |-> "Internal server error during connection test"]

\* lines 241-242 of the node: the request timeout of a probe
DiscoveryTimeout(command) ==
    IF Includes(command, "npx") \/ Includes(command, "npm") THEN 8000 ELSE 5000

ParseResponse_byMessageOnly(response) ==
    IF response.status = 200 /\ Field(response, "success", FALSE)
    THEN [available |-> TRUE,
          toolsCount |-> Field(response, "toolsCount", 0),
          resourcesCount |-> Field(response, "resourcesCount", 0),
          message |-> response.message,
          validForExecution |->
              response.message # "Connected but capability discovery failed",
          warning |-> Field(response, "warning", "null")]
    ELSE [available |-> FALSE,
          error |-> Field(response, "error", "Connection test failed"),
          message |-> Field(response, "message", Undefined)]

\* lines 270-290: a parsed response turned into a discovery result
ParseResponse(response) ==
    IF response.status = 200 /\ Field(response, "success", FALSE)
    THEN LET isCapabilityDiscoveryFailed ==
                 response.message = "Connected but capability discovery failed"
         IN  [available |-> TRUE,
              toolsCount |-> Field(response, "toolsCount", 0),
              resourcesCount |-> Field(response, "resourcesCount", 0),
              message |-> response.message,
              validForExecution |-> Field(response, "validForExecution", FALSE)
                                        \/ ~isCapabilityDiscoveryFailed,
              warning |-> Field(response, "warning", "null")]
    ELSE [available |-> FALSE,
          error |-> Field(response, "error", "Connection test failed"),
          message |-> Field(response, "message", Undefined)]

Unavailable(error, message) ==
    [available |-> FALSE, error |-> error, message |-> message]

\* lines 322-325: { config: serverConfig, ...discoveryResult }
SingleResult(serverConfig, discoveryResult) ==
    [config |-> serverConfig] @@ discoveryResult

\* discoverSingleServer up to its await: reading command of a configuration
\* that has none throws, and the function's promise is rejected; otherwise the
\* request is written
discoverSingleServer(entry) ==
    IF entry.config.command = Undefined
    THEN [npc |-> "rejected", hpc |-> "none", response |-> NoResponse,
          fate |-> "threw",
          settled |-> <<"Discovery error for ", entry.name>>,
          connects |-> 0, disconnects |-> 0, late |-> FALSE]
    ELSE [npc |-> "sent", hpc |-> "none", response |-> NoResponse,
          fate |-> "none", settled |-> <<>>,
          connects |-> 0, disconnects |-> 0, late |-> FALSE]

Settle_lastWins(i, fate, discoveryResult) ==
    disc' = [disc EXCEPT !["probes"][i].npc = "resolved",
                         !["probes"][i].late = (disc.probes[i].npc = "resolved"),
                         !["probes"][i].fate =
                             IF disc.probes[i].npc = "sent" THEN fate ELSE @,
                         !["probes"][i].settled =
                             SingleResult(disc.config[i].config, discoveryResult)]

\* a handler of the request calls resolve (lines 275, 285, 292, 302, 311):
\* the first call settles the promise and discoverSingleServer returns
\* { config, ...discoveryResult } (lines 322-329); a call on the settled
\* promise has no effect
Settle(i, fate, discoveryResult) ==
    disc' = IF disc.probes[i].npc = "sent"
            THEN [disc EXCEPT !["probes"][i].npc = "resolved",
                              !["probes"][i].fate = fate,
                              !["probes"][i].settled =
                                  SingleResult(disc.config[i].config, discoveryResult)]
            ELSE [disc EXCEPT !["probes"][i].late = TRUE]

ProbeIndexes == 1..Len(disc.probes)

HostUnchanged == UNCHANGED <<mcpClients, infos, clients, rq>>

\* lines 199-210: one discoverSingleServer per entry, then the await of
\* Promise.allSettled
DiscoverStartOver(configs) ==
    /\ disc.pc = "idle"
    /\ \E mcpServersConfig \in configs :
         disc' = [disc EXCEPT
                    !.pc = "waiting",
                    !.config = mcpServersConfig,
                    !.probes = [i \in 1..Len(mcpServersConfig) |->
                                   discoverSingleServer(mcpServersConfig[i])]]
    /\ HostUnchanged

DiscoverStartUpTo(max) == DiscoverStartOver(McpServersConfigsUpTo(max))

DiscoverStart == DiscoverStartUpTo(MaxServers)

\* POST /test-connection, lines 604-619: serverArgs.join throws on args that
\* are not an array and the outer catch answers; otherwise a fresh MCPClient
\* is created and its connect awaited
TestStart(i) ==
    /\ i \in ProbeIndexes
    /\ disc.probes[i].npc # "rejected"
    /\ disc.probes[i].hpc = "none"
    /\ disc' = IF disc.config[i].config.args # "array"
               THEN [disc EXCEPT !["probes"][i].hpc = "finished",
                                 !["probes"][i].response = InternalErrorResponse]
               ELSE [disc EXCEPT !["probes"][i].hpc = "connecting",
                                 !["probes"][i].connects = @ + 1]
    /\ HostUnchanged

\* the awaited testClient.connect has settled (lines 619, 659-668)
TestConnectDone(i) ==
    /\ i \in ProbeIndexes
    /\ disc.probes[i].hpc = "connecting"
    /\ \/ disc' = [disc EXCEPT !["probes"][i].hpc = "listing_tools"]
       \/ disc' = [disc EXCEPT !["probes"][i].hpc = "finished",
                               !["probes"][i].response = ConnectionFailedResponse]
    /\ HostUnchanged

\* the awaited testClient.listTools has settled (lines 623, 638-654)
TestToolsDone(i) ==
    /\ i \in ProbeIndexes
    /\ disc.probes[i].hpc = "listing_tools"
    /\ \/ \E tools \in ToolCounts :
            disc' = [disc EXCEPT !["probes"][i].hpc = "listing_resources",
                                 !["probes"][i].response = [status |-> 0, tools |-> tools]]
       \/ disc' = [disc EXCEPT !["probes"][i].hpc = "closing",
                               !["probes"][i].disconnects = @ + 1,
                               !["probes"][i].response = CapabilityFailedResponse]
    /\ HostUnchanged

\* the awaited testClient.listResources has settled (lines 624-657); the
\* response is sent and testClient.disconnect awaited
TestResourcesDone(i) ==
    /\ i \in ProbeIndexes
    /\ disc.probes[i].hpc = "listing_resources"
    /\ \/ disc' = [disc EXCEPT !["probes"][i].hpc = "closing",
                               !["probes"][i].disconnects = @ + 1,
                               !["probes"][i].response =
                                   OkResponse(disc.probes[i].response.tools)]
       \/ disc' = [disc EXCEPT !["probes"][i].hpc = "closing",
                               !["probes"][i].disconnects = @ + 1,
                               !["probes"][i].response = CapabilityFailedResponse]
    /\ HostUnchanged

TestCloseDone_pooled(i) ==
    /\ i \in ProbeIndexes
    /\ disc.probes[i].hpc = "closing"
    /\ disc' = [disc EXCEPT !["probes"][i].hpc = "finished"]
    /\ clients' = [ref \in 1..Len(clients) |->
                     [clients[ref] EXCEPT !.isConnected = FALSE]]
    /\ UNCHANGED <<mcpClients, infos, rq>>

\* the awaited testClient.disconnect has settled (line 657)
TestCloseDone(i) ==
    /\ i \in ProbeIndexes
    /\ disc.probes[i].hpc = "closing"
    /\ disc' = [disc EXCEPT !["probes"][i].hpc = "finished"]
    /\ HostUnchanged

\* the node receives the end of the response (lines 268-298): its body is
\* parsed, or is not JSON
NodeResponse(i) ==
    /\ i \in ProbeIndexes
    /\ disc.probes[i].npc = "sent"
    /\ disc.probes[i].response.status # 0
    /\ \/ Settle(i, "response", ParseResponse(disc.probes[i].response))
       \/ Settle(i, "unparsable", Unavailable("Response parsing failed", "parseError"))
    /\ HostUnchanged

\* the request emits 'error' (lines 301-307): while the probe is pending, or
\* once after the timeout handler has destroyed the request (line 310)
NodeError(i) ==
    /\ i \in ProbeIndexes
    /\ \/ disc.probes[i].npc = "sent"
       \/ /\ disc.probes[i].npc = "resolved"
          /\ disc.probes[i].fate = "timeout"
          /\ ~disc.probes[i].late
    /\ Settle(i, "error", Unavailable("Connection error", "error"))
    /\ HostUnchanged

\* the request emits 'timeout' (lines 309-316)
NodeTimeout(i) ==
    /\ i \in ProbeIndexes
    /\ disc.probes[i].npc = "sent"
    /\ Settle(i, "timeout",
              Unavailable("Connection timeout",
                          <<"Request timed out after ",
                            DiscoveryTimeout(disc.config[i].config.command), "ms">>))
    /\ HostUnchanged

ObjectKeys(mcpServersConfig) ==
    [i \in 1..Len(mcpServersConfig) |-> mcpServersConfig[i].name]

\* lines 213-231: results.forEach up to index
RECURSIVE ProcessResults(_, _, _)
ProcessResults(mcpServersConfig, results, index) ==
    IF index = 0 THEN <<>>
    ELSE LET serverName == ObjectKeys(mcpServersConfig)[index]
             result == results[index]
             value == IF result.npc = "resolved" THEN result.settled
                      ELSE [config |-> mcpServersConfig[index].config,
                            available |-> FALSE,
                            error |-> "Discovery failed",
                            message |-> result.settled]
         IN  (serverName :> value)
                 @@ ProcessResults(mcpServersConfig, results, index - 1)

AllSettled == \A i \in ProbeIndexes : disc.probes[i].npc \in {"resolved", "rejected"}

DiscoverSettle_failFast ==
    /\ disc.pc = "waiting"
    /\ \/ /\ \E i \in ProbeIndexes : disc.probes[i].npc = "rejected"
          /\ disc' = [disc EXCEPT !.pc = "raised"]
       \/ /\ \A i \in ProbeIndexes : disc.probes[i].npc = "resolved"
          /\ disc' = [disc EXCEPT !.pc = "done",
                        !.results = ProcessResults(disc.config, disc.probes,
                                                   Len(disc.probes))]
    /\ HostUnchanged

\* line 210: Promise.allSettled resolves once every probe has settled, and the
\* results are processed
DiscoverSettle ==
    /\ disc.pc = "waiting"
    /\ AllSettled
    /\ disc' = [disc EXCEPT !.pc = "done",
                  !.results = ProcessResults(disc.config, disc.probes,
                                             Len(disc.probes))]
    /\ HostUnchanged

NextDiscovery ==
    \/ DiscoverStart
    \/ \E i \in 1..MaxServers : TestStart(i)
    \/ \E i \in 1..MaxServers : TestConnectDone(i)
    \/ \E i \in 1..MaxServers : TestToolsDone(i)
    \/ \E i \in 1..MaxServers : TestResourcesDone(i)
    \/ \E i \in 1..MaxServers : TestCloseDone(i)
    \/ \E i \in 1..MaxServers : NodeResponse(i)
    \/ \E i \in 1..MaxServers : NodeError(i)
    \/ \E i \in 1..MaxServers : NodeTimeout(i)
    \/ DiscoverSettle

SpecDiscovery == Init /\ [][NextDiscovery]_vars

\* launch commands of the kinds the code tells apart by their text
LaunchCommands == {"node", "npx", "npm", "python"}

\* one server, launched by one of LaunchCommands
LaunchConfigs ==
    {<<[name |-> ServerNames[1], config |-> [command |-> c, args |-> "array"]]>> :
        c \in LaunchCommands}

\* a discovery of one server and an /execute, over LaunchCommands: the probe
\* may time out and the connect may fail
NextLaunch ==
    \/ DiscoverStartOver(LaunchConfigs)
    \/ NodeResponse(1)
    \/ NodeTimeout(1)
    \/ TestStart(1)
    \/ TestConnectDone(1)
    \/ DiscoverSettle
    \/ ExecStartWith("r1", 0, SessionIds, ApiKeys, LaunchCommands)
    \/ ConnectDone("r1")
    \/ RetryDelayDone("r1")

SpecLaunch == Init /\ [][NextLaunch]_vars

\* the timer of a pending request fires (the timeout option of line 261), and
\* the continuation of Promise.allSettled runs once every probe has settled;
\* nothing is assumed of the host
SpecDiscoveryFair ==
    /\ SpecDiscovery
    /\ \A i \in 1..MaxServers : WF_vars(NodeTimeout(i))
    /\ WF_vars(DiscoverSettle)


\* one execution session of the host and, beside it, a discovery of one
\* server by the node
NextProbe ==
    \/ ExecStart("r1", 0)
    \/ ConnectDone("r1")
    \/ RetryDelayDone("r1")
    \/ ListToolsDone("r1")
    \/ Round1Done("r1", 0)
    \/ DiscoverStartUpTo(1)
    \/ TestStart(1)
    \/ TestConnectDone(1)
    \/ TestToolsDone(1)
    \/ TestResourcesDone(1)
    \/ TestCloseDone(1)
    \/ NodeResponse(1)
    \/ NodeError(1)
    \/ NodeTimeout(1)
    \/ DiscoverSettle

SpecProbe == Init /\ [][NextProbe]_vars

\* =============================================================== selection
\* The node's selectBestMCPServer, applied by the input handler to the prompt,
\* the configuration and the result of the discovery.
MaxConfigured == 2

LowerOf ==
    [A |-> "a", B |-> "b", C |-> "c", D |-> "d", E |-> "e", F |-> "f",
     G |-> "g", H |-> "h", I |-> "i", J |-> "j", K |-> "k", L |-> "l",
     M |-> "m", N |-> "n", O |-> "o", P |-> "p", Q |-> "q", R |-> "r",
     S |-> "s", T |-> "t", U |-> "u", V |-> "v", W |-> "w", X |-> "x",
     Y |-> "y", Z |-> "z"]

\* String.prototype.toLowerCase on the characters the inputs use
RECURSIVE ToLowerCase(_)
ToLowerCase(s) ==
    IF Len(s) = 0 THEN ""
    ELSE LET c == SubSeq(s, 1, 1)
         IN  (IF c \in DOMAIN LowerOf THEN LowerOf[c] ELSE c)
                 \o ToLowerCase(SubSeq(s, 2, Len(s)))

\* lines 364-370, in the order of Object.entries
taskKeywords ==
    <<[taskType |-> "web_search",
       keywords |-> <<"search", "buscar", "encontrar", "notícias", "news",
                      "futebol", "esportes">>],
      [taskType |-> "file_management",
       keywords |-> <<"arquivo", "file", "documento", "drive", "google",
                      "upload", "download">>],
      [taskType |-> "database",
       keywords |-> <<"banco", "database", "query", "sql", "dados">>],
      [taskType |-> "code_analysis",
       keywords |-> <<"código", "code", "análise", "review", "debug">>],
      [taskType |-> "general",
       keywords |-> <<"geral", "general", "ajuda", "help",
                      "o que você pode fazer">>]>>

RECURSIVE DetectTaskFrom(_, _)
DetectTaskFrom_lastWins(promptLower, i) ==
    IF i > Len(taskKeywords) THEN "general"
    ELSE LET later == DetectTaskFrom(promptLower, i + 1)
         IN  IF later = "general"
                /\ \E k \in 1..Len(taskKeywords[i].keywords) :
                      Includes(promptLower, taskKeywords[i].keywords[k])
             THEN taskKeywords[i].taskType
             ELSE later

\* lines 373-379: the loop over taskKeywords from entry i on
DetectTaskFrom(promptLower, i) ==
    IF i > Len(taskKeywords) THEN "general"
    ELSE IF \E k \in 1..Len(taskKeywords[i].keywords) :
                Includes(promptLower, taskKeywords[i].keywords[k])
    THEN taskKeywords[i].taskType
    ELSE DetectTaskFrom(promptLower, i + 1)

DetectTask(promptLower) == DetectTaskFrom(promptLower, 1)

\* lines 382-390
serverPreferences(detectedTask) ==
    CASE detectedTask = "web_search" -> <<"exa", "smithery", "search">>
      [] detectedTask = "file_management" -> <<"gdrive", "google", "file">>
      [] detectedTask = "database" -> <<"database", "db">>
      [] detectedTask = "code_analysis" -> <<"code", "analysis", "review">>
      [] detectedTask = "general" -> <<"default", "general">>
      [] OTHER -> <<"default">>

\* serverInfo.available && (serverInfo.validForExecution !== false)
Usable(serverInfo) ==
    serverInfo.available /\ Field(serverInfo, "validForExecution", Undefined) # FALSE

\* lines 395-396
NameMatches(serverName, preferredServer) ==
    \/ Includes(ToLowerCase(serverName), preferredServer)
    \/ preferredServer = "default" /\ serverName = "default"

PreferredHits_anyStatus(names, allServersDiscovery, preferredServer) ==
    SelectSeq(names, LAMBDA n : NameMatches(n, preferredServer))

\* the names of the discovery result, in the order of Object.entries, that
\* satisfy the test of line 395-397 for one preferred substring
PreferredHits(names, allServersDiscovery, preferredServer) ==
    SelectSeq(names, LAMBDA n : NameMatches(n, preferredServer)
                                   /\ Usable(allServersDiscovery[n]))

\* lines 393-408: the loops over preferredServers from entry i on; <<>> when
\* they end without a return
RECURSIVE PreferredFrom(_, _, _, _)
PreferredFrom(names, allServersDiscovery, preferredServers, i) ==
    IF i > Len(preferredServers) THEN <<>>
    ELSE LET hits == PreferredHits(names, allServersDiscovery, preferredServers[i])
         IN  IF hits # <<>> THEN <<Head(hits)>>
             ELSE PreferredFrom(names, allServersDiscovery, preferredServers, i + 1)

FirstAvailable_byAvailableOnly(names, allServersDiscovery) ==
    SelectSeq(names, LAMBDA n : allServersDiscovery[n].available)

\* lines 411-421: the names of the discovery result, in the order of
\* Object.entries, that are available and valid for execution; the first is
\* returned
FirstAvailable(names, allServersDiscovery) ==
    SelectSeq(names, LAMBDA n : Usable(allServersDiscovery[n]))

\* a prompt that is not a string: prompt.toLowerCase is not a function
NonStringPrompt == "<object>"

SingleServerResult_ifUsable(mcpServersConfig, allServersDiscovery) ==
    IF Usable(allServersDiscovery[mcpServersConfig[1].name])
    THEN [serverName |-> mcpServersConfig[1].name,
          serverConfig |-> mcpServersConfig[1].config,
          reason |-> "Single server available: " \o mcpServersConfig[1].name]
    ELSE NoSelection

\* lines 340-350: the only configured server, whatever was discovered
SingleServerResult(mcpServersConfig, allServersDiscovery) ==
    [serverName |-> mcpServersConfig[1].name,
     serverConfig |-> mcpServersConfig[1].config,
     reason |-> "Single server available: " \o mcpServersConfig[1].name]

\* selectBestMCPServer, called with the discovery result (lines 337-446)
selectBestMCPServer(prompt, mcpServersConfig, allServersDiscovery) ==
    LET serverNames == [i \in 1..Len(mcpServersConfig) |-> mcpServersConfig[i].name]
        first == serverNames[1]
    IN  IF Len(serverNames) = 1
        THEN SingleServerResult(mcpServersConfig, allServersDiscovery)
        ELSE IF prompt = NonStringPrompt
        THEN [serverName |-> first,
              serverConfig |-> mcpServersConfig[1].config,
              reason |-> "Error in server selection, using fallback: " \o first]
        ELSE LET detectedTask == DetectTask(ToLowerCase(prompt))
                 preferred == PreferredFrom(serverNames, allServersDiscovery,
                                            serverPreferences(detectedTask), 1)
                 usable == FirstAvailable(serverNames, allServersDiscovery)
             IN  IF preferred # <<>>
                 THEN [serverName |-> preferred[1],
                       serverConfig |-> allServersDiscovery[preferred[1]].config,
                       reason |-> "Selected based on task type '" \o detectedTask
                                      \o "' and availability"]
                 ELSE IF usable # <<>>
                 THEN [serverName |-> usable[1],
                       serverConfig |-> allServersDiscovery[usable[1]].config,
                       reason |-> "First available server: " \o usable[1]]
                 ELSE [serverName |-> first,
                       serverConfig |-> mcpServersConfig[1].config,
                       reason |-> "Fallback to first server (may not be available): "
                                      \o first]

\* ---- the inputs of a selection
SelectorNames == {"exa", "default", "Smithery-Search", "gdrive", "db-main"}

Prompts ==
    {"search for X", "Search the FILE list", "upload a report",
     "run this SQL query", "debug my code", "help me", "hello there",
     "últimas notícias", NonStringPrompt}

\* a 200 answer of a host that reports the failed capability discovery
\* without the validForExecution flag
BareCapabilityFailedResponse ==
    [status |-> 200, success |-> TRUE,
     message |-> "Connected but capability discovery failed",
     toolsCount |-> 0, resourcesCount |-> 0]

ProbeResponses ==
    {OkResponse(2), CapabilityFailedResponse, BareCapabilityFailedResponse,
     ConnectionFailedResponse}

\* configurations of up to max servers with distinct names, in any order
SelectorConfigs(max) ==
    UNION {{[i \in 1..k |-> [name |-> f[i],
                             config |-> [command |-> "node", args |-> "array"]]] :
                f \in {g \in [1..k -> SelectorNames] :
                          \A i \in 1..k, j \in 1..k : i # j => g[i] # g[j]}} :
           k \in 1..max}

\* the results discoverAllMCPServers returns for a configuration when its
\* probes receive the given responses
DiscoveryOf(mcpServersConfig, responses) ==
    ProcessResults(mcpServersConfig,
                   [i \in 1..Len(mcpServersConfig) |->
                       [npc |-> "resolved",
                        settled |-> SingleResult(mcpServersConfig[i].config,
                                                 ParseResponse(responses[i]))]],
                   Len(mcpServersConfig))

\* the input handler after its await of discoverAllMCPServers (lines 551-565)
InitSelector ==
    /\ mcpClients = <<>>
    /\ infos = <<>>
    /\ clients = <<>>
    /\ rq = [r \in Requests |-> NoRequest]
    /\ \E prompt \in Prompts, mcpServersConfig \in SelectorConfigs(MaxConfigured) :
         \E responses \in [1..Len(mcpServersConfig) -> ProbeResponses] :
            disc = [NoDiscovery EXCEPT
                      !.pc = "done",
                      !.prompt = prompt,
                      !.config = mcpServersConfig,
                      !.results = DiscoveryOf(mcpServersConfig, responses)]

\* lines 567-571: await selectBestMCPServer(promptToUse, mcpServersConfig,
\* serverEnvsObject, allServersDiscovery)
Select ==
    /\ disc.pc = "done"
    /\ disc' = [disc EXCEPT
                  !.pc = "selected",
                  !.selected = selectBestMCPServer(disc.prompt, disc.config,
                                                   disc.results)]
    /\ HostUnchanged

NextSelector == Select

SpecSelector == InitSelector /\ [][NextSelector]_vars

\* ================================================================== claims
Range(f) == {f[i] : i \in DOMAIN f}
Count(f, e) == Cardinality({i \in DOMAIN f : f[i] = e})

InFlightConnects(ref) ==
    Cardinality({r \in Requests : rq[r].ref = ref /\ rq[r].pc = "connecting"})

ClosingPcs == {"conn_closing", "retry_closing", "d_closing"}

\* the client.close() calls in flight on client ref
InFlightCloses(cl, q, ref) ==
    cl[ref].detached
    + Cardinality({r \in Requests : q[r].ref = ref /\ q[r].pc \in ClosingPcs})

\* C1: requests handled concurrently for one key invoke the transport's connect
\* once: a client never has two connects in flight nor two live subprocesses.
C1_OneConnectPerKey ==
    \A ref \in 1..Len(clients) :
        InFlightConnects(ref) <= 1 /\ clients[ref].live <= 1

\* C2: a run of the sweep removes every expired session and, when its client is
\* connected, leaves exactly one disconnect of its transport in flight; it
\* leaves every other session in the pool with its client untouched.
C2_SweepDisconnectsOnce ==
    [][Sweep =>
        \A i \in 1..Len(mcpClients) :
            LET e == mcpClients[i]
            IN  IF Expired(infos, e)
                THEN /\ ~PoolHas(mcpClients', e.key)
                     /\ clients[e.ref].isConnected =>
                            InFlightCloses(clients', rq', e.ref) = 1
                ELSE /\ PoolHas(mcpClients', e.key)
                     /\ clients'[e.ref] = clients[e.ref]]_vars

\* C4: when the first model response carries no tool call, execute answers
\* success with the model's text and toolsUsed = [], after one model call and
\* no tool dispatch.
C4_Case(q) ==
    q.kind = "execute" /\ "round1_ok" \in Range(q.log) /\ q.calls = <<>>

C4_DirectAnswer ==
    \A r \in Requests :
        C4_Case(rq[r]) =>
            /\ rq[r].pc = "done"
            /\ rq[r].resp = <<Success("content1", <<>>)>>
            /\ Count(rq[r].log, "round1") = 1
            /\ Count(rq[r].log, "round2") = 0
            /\ Count(rq[r].log, "call") = 0

C4_Witness == \E r \in Requests : C4_Case(rq[r]) /\ rq[r].pc = "done"

\* C5: a call that completes with the server's error payload yields a Result
\* carrying it; the payload is in the tool message sent in round 2 and in
\* toolsUsed, and execute answers success unless something else fails.
ErrorResults(q) == {i \in DOMAIN q.toolResults : q.toolResults[i].output.isError}

C5_ErrorPayloadCarried ==
    \A r \in Requests :
        LET q == rq[r]
        IN  /\ Count(q.log, "call_error") = Cardinality(ErrorResults(q))
            /\ \A i \in ErrorResults(q) :
                 /\ "round2" \in Range(q.log) =>
                        \E j \in DOMAIN q.messages :
                            /\ q.messages[j].role = "tool"
                            /\ q.messages[j] = ToolMessage(q.toolResults[i])
                 /\ "round2_ok" \in Range(q.log) =>
                        /\ q.pc = "done"
                        /\ q.resp[1].success
                        /\ q.toolResults[i].output \in Range(q.resp[1].toolsUsed)
                 /\ (q.pc = "done" /\ ~q.resp[1].success) =>
                        \/ "call_rejected" \in Range(q.log)
                        \/ (\E c \in Range(q.calls) : c.shape = "badjson")
                        \/ "round2" \in Range(q.log)

C5_Witness ==
    \E r \in Requests :
        /\ "call_error" \in Range(rq[r].log)
        /\ "round2_ok" \in Range(rq[r].log)
        /\ rq[r].pc = "done"

\* C6: a tool call that fails or times out is captured as a Result with an
\* error flag and execute still answers success.
C6_RejectionCaptured ==
    \A r \in Requests :
        LET q == rq[r]
        IN  "call_rejected" \in Range(q.log) =>
                /\ \E i \in DOMAIN q.toolResults :
                       /\ q.toolResults[i].tool_call_id = q.idx
                       /\ q.toolResults[i].output.isError
                /\ q.pc = "done" => q.resp[1].success

\* C7: one execute request attempts connect at most twice; a second attempt
\* follows a failed first one for an npx command only, after the disconnect and
\* the delay; a failed connect of a local command is reported at once.
ConnectLog(q) ==
    SelectSeq(q.log, LAMBDA e : e \in {"connect", "connect_ok", "connect_fail",
                                       "disconnect", "delay"})

C7_RetryPolicy ==
    \A r \in Requests :
        LET q == rq[r]
            c == ConnectLog(q)
        IN  q.kind = "execute" =>
              /\ Count(c, "connect") <= 2
              /\ Count(c, "connect") = 2 =>
                    /\ Includes(q.cmd, "npx")
                    /\ SubSeq(c, 1, 5) = <<"connect", "connect_fail", "disconnect",
                                           "delay", "connect">>
              /\ ("connect_fail" \in Range(c) /\ ~Includes(q.cmd, "npx")) =>
                    /\ Count(c, "connect") = 1
                    /\ q.pc = "done"
                    /\ q.resp = <<Failure(500, ExecPrefix \o ConnectError(1))>>

C7_Witness ==
    /\ rq["r1"].kind = "execute" /\ Count(rq["r1"].log, "connect") = 2
    /\ rq["r2"].kind = "execute" /\ rq["r2"].cmd = "node"
    /\ "connect_fail" \in Range(rq["r2"].log)

\* C8: when the connect to an npx server fails and the retry fails too, execute
\* answers success:false with the retry's error, the prompt is never sent to
\* the model, and the request does not mark the session connected.
C8_Case(q) == q.kind = "execute" /\ Count(q.log, "connect_fail") = 2

C8_RetryFailureReported ==
    \A r \in Requests :
        LET q == rq[r]
        IN  C8_Case(q) =>
              /\ q.pc = "done"
              /\ q.resp = <<Failure(500, ExecPrefix \o ConnectError(2))>>
              /\ "round1" \notin Range(q.log)
              /\ infos[q.ref].connected =>
                    \E o \in Requests \ {r} :
                        rq[o].ref = q.ref /\ "connect_ok" \in Range(rq[o].log)

C8_Witness == \E r \in Requests : C8_Case(rq[r]) /\ ~infos[rq[r].ref].connected

\* C9: an execute request is answered exactly once, with a success or failure
\* envelope, whichever step fails; no error escapes the handler.
AwaitPcs ==
    {"conn_closing", "connecting", "retry_closing", "retry_delay",
     "tmp_connecting", "tmp_listing", "tmp_closing",
     "listing", "round1", "calling", "round2"}

Envelope(x) ==
    IF x.success
    THEN x.status = 200 /\ x.error = "none" /\ x.response \in {"content1", "content2"}
    ELSE x.status \in {200, 400, 500} /\ x.error # "none" /\ x.toolsUsed = <<>>

C9_OneEnvelope ==
    \A r \in Requests :
        LET q == rq[r]
        IN  q.kind = "execute" =>
              /\ q.pc \in AwaitPcs \cup {"done"}
              /\ q.pc = "done" => Len(q.resp) = 1 /\ Envelope(q.resp[1])
              /\ q.pc # "done" => q.resp = <<>>

\* the session was disconnected while the request was in flight
C9_Witness ==
    \E r \in Requests :
        /\ rq[r].kind = "execute" /\ rq[r].pc = "done"
        /\ rq[r].resp[1].error = "Erro interno do servidor"

\* a probe of the discovery succeeded: the node parsed a 200 success response
ProbeSucceeded(i) ==
    /\ disc.probes[i].fate = "response"
    /\ disc.probes[i].response.status = 200

\* C3: discoverAll never raises; when it completes the result has exactly one
\* entry per configured server, each carrying its own configuration and
\* available exactly when its own probe succeeded, whatever the other probes did.
C3_DiscoveryIsolated ==
    /\ disc.pc \in {"idle", "waiting", "done"}
    /\ disc.pc = "done" =>
         /\ DOMAIN disc.results = Range(ObjectKeys(disc.config))
         /\ Cardinality(DOMAIN disc.results) = Len(disc.config)
         /\ \A i \in 1..Len(disc.config) :
              LET e == disc.results[disc.config[i].name]
              IN  /\ e.config = disc.config[i].config
                  /\ e.available <=> ProbeSucceeded(i)

\* two servers or more, the connect of exactly one failed or never started,
\* and the discovery completed
C3_Witness ==
    /\ disc.pc = "done"
    /\ Len(disc.config) >= 2
    /\ \E i \in 1..Len(disc.config) :
         /\ ~disc.results[disc.config[i].name].available
         /\ \A j \in 1..Len(disc.config) \ {i} :
              disc.results[disc.config[j].name].available
    /\ \E i \in 1..Len(disc.config) :
         /\ disc.probes[i].fate = "response"
         /\ disc.probes[i].response.status = 500
         /\ disc.results[disc.config[i].name].error = "Connection test failed"

InPool(ref) == \E i \in 1..Len(mcpClients) : mcpClients[i].ref = ref

\* the requests that obtained a client from the pool
Served == {r \in Requests : rq[r].kind \in {"execute", "tools"} /\ rq[r].ref # 0}

\* C12: requests whose (sessionId, apiKey, command, args) differ in a component
\* are never given the same pool entry, and requests with the same tuple are
\* given the same entry while it is in the pool.
C12_KeyCollisionFree ==
    \A r \in Served, s \in Served :
        /\ rq[r].ref = rq[s].ref => rq[r].body = rq[s].body
        /\ (rq[r].body = rq[s].body /\ InPool(rq[r].ref) /\ InPool(rq[s].ref))
             => rq[r].ref = rq[s].ref

\* C13: a completed disconnect(sessionId) has removed and disconnected every
\* entry whose key starts with the sessionId, reports how many it removed, and
\* has left the entries created under any other sessionId in the pool.
C13_DisconnectBySession ==
    \A d \in Requests :
        (rq[d].kind = "disconnect" /\ rq[d].pc = "done" /\ rq[d].resp[1].success) =>
            /\ \A e \in Served :
                 rq[e].body[1] # rq[d].body[1] => InPool(rq[e].ref)
            /\ \A e \in Served :
                 ~InPool(rq[e].ref) => ~clients[rq[e].ref].isConnected
            /\ rq[d].resp[1].disconnectedClients
                 = Cardinality({e \in Served : rq[e].body[1] = rq[d].body[1]
                                                /\ ~InPool(rq[e].ref)})

\* a step of the discovery or of a POST /test-connection handler
ProbeStep ==
    \/ DiscoverStartUpTo(MaxServers)
    \/ DiscoverSettle
    \/ \E i \in 1..MaxServers :
         \/ TestStart(i) \/ TestConnectDone(i) \/ TestToolsDone(i)
         \/ TestResourcesDone(i) \/ TestCloseDone(i)
         \/ NodeResponse(i) \/ NodeError(i) \/ NodeTimeout(i)

\* C14: no step of a discovery or of a connection test changes the session
\* pool: its entries, their connected flags, their lastActivity and their
\* clients are after the step what they were before it.
C14_ProbeLeavesPool ==
    [][ProbeStep => UNCHANGED <<mcpClients, infos, clients>>]_vars

\* a connected execution session is in the pool and a probe ran to its end
C14_Witness ==
    /\ \E i \in 1..Len(mcpClients) :
         /\ infos[mcpClients[i].ref].connected
         /\ clients[mcpClients[i].ref].isConnected
    /\ \E i \in 1..Len(disc.probes) :
         /\ disc.probes[i].hpc = "finished"
         /\ disc.probes[i].disconnects = 1

\* C15: when a POST /test-connection handler that started a connect has
\* finished, disconnect has been invoked on its client, whether the connect
\* succeeded, the capability listing failed or the connect failed.
C15_ProbeAlwaysDisconnects ==
    \A i \in 1..Len(disc.probes) :
        (disc.probes[i].hpc = "finished" /\ disc.probes[i].connects > 0)
            => disc.probes[i].disconnects > 0

\* C16: when the SIGINT handler exits the process, disconnect has been invoked
\* on the client of every session of the pool that has a subprocess, the
\* sessions whose connection is still being established included.
C16_ShutdownDisconnectsAll ==
    \A r \in Requests :
        (rq[r].kind = "sigint" /\ rq[r].pc = "exited") =>
            \A i \in 1..Len(mcpClients) :
                clients[mcpClients[i].ref].live > 0 =>
                    mcpClients[i].ref \in Range(rq[r].closed)

\* request r arrives in this step for a key whose session is in the pool and
\* marked connected
ArrivesAtConnected(r) ==
    /\ rq[r].pc = "idle"
    /\ rq'[r].kind \in {"execute", "tools"}
    /\ rq'[r].ref \in 1..Len(infos)
    /\ InPool(rq'[r].ref)
    /\ infos[rq'[r].ref].connected

\* a request that found the session connected never invokes connect, and a
\* request whose first connect succeeded invokes it once
ConnectOnce ==
    \A r \in Requests :
        LET c == rq[r].log
        IN  /\ (c # <<>> /\ c[1] # "connect") => Count(c, "connect") = 0
            /\ (Len(c) >= 2 /\ c[2] = "connect_ok") => Count(c, "connect") = 1

\* C17: a request (execute or listTools) whose key has a connected session in
\* the pool reuses it: on arrival it invokes no connect, starts no subprocess
\* and stamps lastActivity, and it invokes no connect later either; a request
\* whose first connect succeeded invokes connect once.
C17_ReuseConnected ==
    /\ []ConnectOnce
    /\ [][\A r \in Requests :
            ArrivesAtConnected(r) =>
                /\ Count(rq'[r].log, "connect") = 0
                /\ rq'[r].pc \notin {"connecting", "conn_closing"}
                /\ clients'[rq'[r].ref].live = clients[rq'[r].ref].live
                /\ infos'[rq'[r].ref].idle = 0]_vars

\* the second request was served by the session the first one connected
C17_Witness ==
    /\ rq["r1"].kind = "execute" /\ "connect_ok" \in Range(rq["r1"].log)
    /\ rq["r2"].kind \in {"execute", "tools"}
    /\ rq["r2"].ref = rq["r1"].ref
    /\ rq["r2"].pc = "done" /\ rq["r2"].resp[1].success
    /\ Count(rq["r2"].log, "connect") = 0

MinOf(S) == CHOOSE x \in S : \A y \in S : x <= y

\* a selection was made among two servers or more for a prompt that is a string
Selected2 ==
    disc.pc = "selected" /\ Len(disc.config) >= 2 /\ disc.prompt # NonStringPrompt

\* the name matches one of the preferred substrings
MatchesAny(serverName, preferredServers) ==
    \E p \in 1..Len(preferredServers) : NameMatches(serverName, preferredServers[p])

\* C11: with two available servers, one whose name matches a search
\* preference and one that matches none, and a prompt containing
\* "search for X", the selector returns the search-matching server and its
\* reason cites that server's name.
C11_Case ==
    /\ disc.pc = "selected" /\ Len(disc.config) = 2
    /\ Includes(disc.prompt, "search for X")
    /\ \A i \in 1..2 : Usable(disc.results[disc.config[i].name])
    /\ \E i \in 1..2 :
         /\ MatchesAny(disc.config[i].name, serverPreferences("web_search"))
         /\ ~MatchesAny(disc.config[3 - i].name, serverPreferences("web_search"))

C11_SearchServerCited ==
    C11_Case =>
        /\ MatchesAny(disc.selected.serverName, serverPreferences("web_search"))
        /\ Includes(disc.selected.reason, disc.selected.serverName)

\* C18: with exactly one server configured the selector returns that server,
\* whatever the prompt and whatever the discovery found.
C18_SingleServer ==
    (disc.pc = "selected" /\ Len(disc.config) = 1) =>
        /\ disc.selected.serverName = disc.config[1].name
        /\ disc.selected.serverConfig = disc.config[1].config

\* the only server was found unavailable
C18_Witness ==
    /\ disc.pc = "selected" /\ Len(disc.config) = 1
    /\ ~disc.results[disc.config[1].name].available
    /\ disc.selected.serverName = disc.config[1].name

\* the categories, by position in the table, that have a keyword occurring in
\* the lower-cased prompt
MatchingCategories(prompt) ==
    {i \in 1..Len(taskKeywords) :
        \E k \in 1..Len(taskKeywords[i].keywords) :
            Includes(ToLowerCase(prompt), taskKeywords[i].keywords[k])}

CategoryOf(prompt) ==
    IF MatchingCategories(prompt) = {} THEN "general"
    ELSE taskKeywords[MinOf(MatchingCategories(prompt))].taskType

TaskReason(task) == "Selected based on task type '" \o task \o "' and availability"

\* C19: with two servers or more the category detected for a prompt is the
\* first one of the table that has a keyword occurring, case-insensitively, in
\* the prompt, and the generic one when none has; a selection by preference
\* names that category.
C19_FirstCategoryWins ==
    Selected2 =>
        /\ DetectTask(ToLowerCase(disc.prompt)) = CategoryOf(disc.prompt)
        /\ StartsWith(disc.selected.reason, "Selected based on task type")
             => disc.selected.reason = TaskReason(CategoryOf(disc.prompt))

\* a prompt with an upper-case keyword of the first category and a keyword of
\* the second was selected for by preference
C19_Witness ==
    /\ Selected2
    /\ Cardinality(MatchingCategories(disc.prompt)) >= 2
    /\ ~Includes(disc.prompt, "search")
    /\ disc.selected.reason = TaskReason("web_search")

\* positions of the usable servers whose name matches preferred substring p
Candidates(p) ==
    LET prefs == serverPreferences(CategoryOf(disc.prompt))
    IN  {i \in 1..Len(disc.config) :
            /\ Usable(disc.results[disc.config[i].name])
            /\ NameMatches(disc.config[i].name, prefs[p])}

MatchedPreferences ==
    {p \in 1..Len(serverPreferences(CategoryOf(disc.prompt))) : Candidates(p) # {}}

\* C20: with two servers or more the server selected by preference is the
\* first, in discovery order, of the usable servers matching the earliest
\* preferred substring that any usable server matches; the step selects
\* nothing when no usable server matches, and never an unusable server.
C20_PreferenceOrder ==
    Selected2 =>
        IF MatchedPreferences # {}
        THEN /\ disc.selected.reason = TaskReason(CategoryOf(disc.prompt))
             /\ disc.selected.serverName
                  = disc.config[MinOf(Candidates(MinOf(MatchedPreferences)))].name
             /\ Usable(disc.results[disc.selected.serverName])
        ELSE ~StartsWith(disc.selected.reason, "Selected based on task type")

\* a server matching the first preference, discovered second, is selected
\* over a usable server matching a later preference
C20_Witness ==
    /\ Selected2
    /\ Cardinality(MatchedPreferences) >= 2
    /\ disc.selected.serverName = disc.config[2].name
    /\ Usable(disc.results[disc.config[1].name])
    /\ MatchesAny(disc.config[1].name, serverPreferences(CategoryOf(disc.prompt)))

\* positions of the servers that the discovery found usable
UsablePositions ==
    {i \in 1..Len(disc.config) : Usable(disc.results[disc.config[i].name])}

\* C21: with two servers or more, when no usable server matches a preferred
\* substring, the selector returns the first usable server in discovery order.
C21_FirstAvailable ==
    (Selected2 /\ MatchedPreferences = {} /\ UsablePositions # {}) =>
        /\ disc.selected.serverName = disc.config[MinOf(UsablePositions)].name
        /\ disc.selected.reason
             = "First available server: " \o disc.selected.serverName

\* the first configured server is available but not valid for execution, the
\* second is usable and matches no preference
C21_Witness ==
    /\ Selected2 /\ MatchedPreferences = {}
    /\ disc.results[disc.config[1].name].available
    /\ ~Usable(disc.results[disc.config[1].name])
    /\ disc.selected.serverName = disc.config[2].name

\* C22: the selector always returns a configured server, and returns one that
\* is not usable only when no configured server is usable or exactly one
\* server is configured; with no usable server it returns the first configured.
C22_FallbackOnlyWhenNoneUsable ==
    disc.pc = "selected" =>
        /\ \E i \in 1..Len(disc.config) :
              disc.selected.serverName = disc.config[i].name
        /\ ~Usable(disc.results[disc.selected.serverName])
              => (UsablePositions = {} \/ Len(disc.config) = 1)
        /\ UsablePositions = {}
              => disc.selected.serverName = disc.config[1].name

TimedOutUnavailable ==
    \A i \in ProbeIndexes :
        disc.probes[i].fate = "timeout" =>
            /\ ~disc.probes[i].settled.available
            /\ disc.probes[i].settled.error = "Connection timeout"
            /\ disc.pc = "done" =>
                   /\ ~disc.results[disc.config[i].name].available
                   /\ disc.results[disc.config[i].name].error = "Connection timeout"

SettledOnce ==
    \A i \in ProbeIndexes :
        disc.probes[i].npc = "resolved" =>
            /\ disc'.probes[i].npc = "resolved"
            /\ disc'.probes[i].settled = disc.probes[i].settled
            /\ disc.pc = "done" => disc'.results = disc.results

C24_TimeoutCompletes ==
    /\ []TimedOutUnavailable
    /\ [][SettledOnce]_vars
    /\ (disc.pc = "waiting") ~> (disc.pc = "done")

C24_Witness ==
    /\ disc.pc = "done"
    /\ \E i \in ProbeIndexes :
          /\ disc.probes[i].fate = "timeout"
          /\ disc.probes[i].hpc = "none"
          /\ disc.probes[i].late
          /\ disc.results[disc.config[i].name].error = "Connection timeout"
    /\ \E j \in ProbeIndexes : disc.results[disc.config[j].name].available

\* C25: an execute issues at most two model calls; it issues the second only
\* after tool calls were executed, and then the conversation of that call is
\* the user turn, the assistant turn carrying the tool calls and one tool turn
\* per executed call holding its serialized result, no tools are offered, and
\* a successful answer carries the text of the second call and, as toolsUsed,
\* exactly the outputs of the executed calls; an execute that succeeds after
\* executing calls has issued the second call
C25_FollowUpRound ==
    \A r \in Requests :
        LET q == rq[r]
            executed == [i \in 1..Len(q.toolResults) |-> q.toolResults[i].output]
            turns == [i \in 1..Len(q.toolResults) |->
                        [role |-> "tool",
                         content |-> Stringify(q.toolResults[i].output),
                         tool_call_id |-> q.toolResults[i].tool_call_id,
                         tool_calls |-> <<>>]]
        IN  /\ Len(q.modelCalls) <= 2
            /\ Len(q.modelCalls) = 2 =>
                  /\ q.toolResults # <<>>
                  /\ Len(q.toolResults) = Len(q.dispatched)
                  /\ q.modelCalls[2].messages
                        = <<UserMessage, AssistantMessage(q.calls)>> \o turns
                  /\ q.modelCalls[2].tools = <<>>
                  /\ q.modelCalls[2].tool_choice = Undefined
                  /\ q.messages = q.modelCalls[2].messages
                  /\ (q.pc = "done" /\ q.resp[1].success) =>
                        /\ q.resp[1].response = "content2"
                        /\ q.resp[1].toolsUsed = executed
            /\ (q.kind = "execute" /\ q.pc = "done" /\ q.resp[1].success
                    /\ q.toolResults # <<>>)
                  => Len(q.modelCalls) = 2

C25_Witness ==
    \E r \in Requests :
        /\ rq[r].pc = "done"
        /\ rq[r].resp[1].success
        /\ Len(rq[r].toolResults) = 2
        /\ Len(rq[r].modelCalls) = 2
        /\ rq[r].resp[1].toolsUsed = Outputs(rq[r].toolResults)

\* two distinct tool names of the list have the same normalised name
Collides(mcpTools) ==
    \E i, j \in 1..Len(mcpTools) :
        /\ mcpTools[i] # mcpTools[j]
        /\ Normalize(mcpTools[i]) = Normalize(mcpTools[j])

\* C26: when two distinct tool names of the server normalise to one name, the
\* execute offers no tools to the model, dispatches no call and answers with
\* a failure
C26_CollisionReported ==
    \A r \in Requests :
        Collides(rq[r].mcpTools) =>
            /\ rq[r].modelCalls = <<>>
            /\ rq[r].dispatched = <<>>
            /\ rq[r].pc = "done" => ~rq[r].resp[1].success

\* C27: every dispatched call carries the parsed arguments of the model's
\* call; for every listed tool T, a call naming the normalised name of T is
\* dispatched under T's name; and a call dispatched under a listed tool's
\* name is one whose model call named that tool's normalised name
C27_NameRoundTrip ==
    \A r \in Requests :
        \A k \in 1..Len(rq[r].dispatched) :
            LET d == rq[r].dispatched[k]
                c == rq[r].calls[d.tool_call_id]
                mcpTools == rq[r].mcpTools
            IN  /\ d.arguments = c.arguments.value
                /\ \A i \in 1..Len(mcpTools) :
                       c.name = Normalize(mcpTools[i]) => d.name = mcpTools[i]
                /\ d.name \in Range(mcpTools) => c.name = Normalize(d.name)

\* C28: two pool entries of distinct keys never hold the same client object,
\* no key is held twice, and a step of a temporary client of /execute
\* (connect, listing, disconnect) leaves every client object of the pool as
\* it was
DistinctClients ==
    \A i, j \in 1..Len(mcpClients) :
        i # j => /\ mcpClients[i].key # mcpClients[j].key
                 /\ mcpClients[i].ref # mcpClients[j].ref

TempClientStep ==
    \E r \in Requests :
        /\ rq[r].pc \in {"tmp_connecting", "tmp_listing", "tmp_closing"}
        /\ rq'[r] # rq[r]

C28_ExclusiveHandles ==
    /\ []DistinctClients
    /\ [][TempClientStep => (clients' = clients /\ mcpClients' = mcpClients)]_vars

C28_Witness ==
    /\ Len(mcpClients) = 2
    /\ mcpClients[1].key # mcpClients[2].key
    /\ clients[mcpClients[1].ref].isConnected
    /\ rq["r2"].ref = mcpClients[2].ref
    /\ rq["r2"].pc = "tmp_closing"

\* C29: the handler of an /execute that carries no prompt or no API key, or
\* of a /tools that carries no API key, answers 400 with success false and an
\* error, and in doing so leaves the pool, every lastActivity and every
\* client as they were and calls no connect
Misconfigured(q) ==
    /\ q.kind \in {"execute", "tools"}
    /\ \/ q.body[2] = ""
       \/ q.kind = "execute" /\ ~q.prompt

C29_ConfigErrorAborts ==
    [][\A r \in Requests :
          (rq[r].pc = "idle" /\ rq'[r].pc # "idle" /\ Misconfigured(rq'[r])) =>
              /\ mcpClients' = mcpClients
              /\ infos' = infos
              /\ clients' = clients
              /\ rq'[r].pc = "done"
              /\ Len(rq'[r].resp) = 1
              /\ rq'[r].resp[1].status = 400
              /\ ~rq'[r].resp[1].success
              /\ rq'[r].resp[1].error # "none"
              /\ rq'[r].log = <<>>]_vars

C29_Witness ==
    /\ Len(mcpClients) = 1
    /\ infos[1].idle > 0
    /\ rq["r2"].kind = "execute"
    /\ rq["r2"].prompt
    /\ rq["r2"].body[2] = ""
    /\ rq["r2"].pc = "done"
    /\ rq["r2"].resp[1].status = 400

\* C30: within one execute the dispatched calls are distinct tool calls of
\* the model's turn, in the turn's order, so that no call is dispatched twice
\* whatever the outcome of a dispatch; every dispatch but the pending one has
\* settled exactly once; and no connect attempt follows a dispatch
C30_NoToolRetry ==
    \A r \in Requests :
        LET q == rq[r]
            settled == Count(q.log, "call_ok") + Count(q.log, "call_error")
                          + Count(q.log, "call_rejected")
        IN  /\ \A k \in 1..Len(q.dispatched) :
                  /\ q.dispatched[k].tool_call_id \in 1..Len(q.calls)
                  /\ q.calls[q.dispatched[k].tool_call_id].shape = "function"
            /\ \A k1, k2 \in 1..Len(q.dispatched) :
                  k1 < k2 => q.dispatched[k1].tool_call_id < q.dispatched[k2].tool_call_id
            /\ Count(q.log, "call") = Len(q.dispatched)
            /\ settled = Len(q.dispatched) - (IF q.pc = "calling" THEN 1 ELSE 0)
            /\ \A i, j \in 1..Len(q.log) :
                  (i < j /\ q.log[i] = "call") => q.log[j] # "connect"

C30_Witness ==
    \E r \in Requests :
        /\ rq[r].attempt = 2
        /\ Len(rq[r].dispatched) = 2
        /\ "call_rejected" \in Range(rq[r].log)
        /\ "call_error" \in Range(rq[r].log)
        /\ rq[r].pc = "done"

\* the positions of an event in the log of a request
Positions(log, e) == {i \in 1..Len(log) : log[i] = e}

DispatchEvents == {"call", "call_ok", "call_error", "call_rejected"}

\* C31: within one execute, no tool call is dispatched while the first model
\* call is pending, every dispatch follows the completion of the first model
\* call, and when the second model call is issued every dispatch of the turn
\* has settled and none follows
C31_RoundsOrdered ==
    \A r \in Requests :
        LET q == rq[r]
            settled == Count(q.log, "call_ok") + Count(q.log, "call_error")
                          + Count(q.log, "call_rejected")
        IN  /\ q.pc = "round1" => (q.dispatched = <<>> /\ Len(q.modelCalls) = 1)
            /\ \A i \in 1..Len(q.log) :
                  q.log[i] \in DispatchEvents =>
                      /\ \E j \in Positions(q.log, "round1_ok") : j < i
                      /\ \A j \in Positions(q.log, "round2") : i < j
            /\ q.pc = "calling" => Len(q.modelCalls) = 1
            /\ Len(q.modelCalls) = 2 =>
                  /\ settled = Len(q.dispatched)
                  /\ Len(q.toolResults) = Len(q.dispatched)

C31_Witness ==
    \E r \in Requests :
        /\ rq[r].pc = "round2"
        /\ Len(rq[r].dispatched) = 2
        /\ Len(rq[r].modelCalls) = 2
        /\ rq[r].log[Len(rq[r].log)] = "round2"

\* the model calls of a turn that the dispatch loop sends to the server
Dispatchable(q) == {i \in 1..Len(q.calls) : q.calls[i].shape = "function"}

\* C32: when a turn carries two or more tool calls, the second is sent
\* without waiting for the result of the first: while the first dispatch of
\* such a turn is still pending, the second has been dispatched too
C32_ConcurrentDispatch ==
    \A r \in Requests :
        LET q == rq[r]
        IN  (/\ q.pc = "calling"
             /\ q.toolResults = <<>>
             /\ Len(q.calls) >= 2
             /\ Dispatchable(q) = 1..Len(q.calls))
                => Len(q.dispatched) >= 2

\* the connection of the session of request q failed for good: the handler
\* answered with the connection error of its last attempt
ClosedBy(q) ==
    /\ q.kind = "execute"
    /\ q.pc = "done"
    /\ q.log # <<>>
    /\ q.log[Len(q.log)] = "connect_fail"

\* C33: a session whose connection failed for good is no longer in the pool
\* and is not connected, and no request is connecting or using it
C33_ClosedIsTerminal ==
    \A r \in Requests :
        ClosedBy(rq[r]) =>
            /\ ~InPool(rq[r].ref)
            /\ ~infos[rq[r].ref].connected
            /\ \A r2 \in Requests :
                  (r2 # r /\ rq[r2].ref = rq[r].ref) => rq[r2].pc \in {"idle", "done"}

\* C34: in the conversation of the second model call, every tool call of the
\* assistant turn (its id is its position in the turn) has exactly one tool
\* turn carrying its id, holding the serialized output of that call, and no
\* tool turn carries another id
C34_OneResultPerCall ==
    \A r \in Requests :
        Len(rq[r].modelCalls) = 2 =>
            LET conversation == rq[r].modelCalls[2].messages
                ids == 1..Len(conversation[2].tool_calls)
                toolTurns == {j \in 1..Len(conversation) : conversation[j].role = "tool"}
            IN  /\ conversation[2].role = "assistant"
                /\ \A id \in ids :
                      /\ Cardinality({j \in toolTurns :
                                         conversation[j].tool_call_id = id}) = 1
                      /\ \A j \in toolTurns :
                            conversation[j].tool_call_id = id =>
                                \E isError \in BOOLEAN :
                                    conversation[j].content
                                        = Stringify([isError |-> isError, call |-> id])
                /\ \A j \in toolTurns : conversation[j].tool_call_id \in ids

\* C35: a run of the sweep removes every expired session from the pool and
\* keeps the others, whatever becomes of the disconnects it started; and the
\* settling of such a disconnect, failed or not, changes neither the pool nor
\* any request nor any lastActivity
SweepCloseSettles ==
    \E ref \in 1..Len(clients) : clients'[ref].detached < clients[ref].detached

C35_SweepNeverFatal ==
    /\ [][Sweep =>
            /\ \A i \in 1..Len(mcpClients) :
                  Expired(infos, mcpClients[i]) <=> ~PoolHas(mcpClients', mcpClients[i].key)
            /\ rq' = rq]_vars
    /\ [][SweepCloseSettles =>
            (mcpClients' = mcpClients /\ rq' = rq /\ infos' = infos)]_vars

\* two sessions were swept in one run; the disconnect of the first failed and
\* left its client connected, the disconnect of the second succeeded
C35_Witness ==
    /\ mcpClients = <<>>
    /\ Len(infos) = 2
    /\ infos[1].idle > maxAge /\ infos[2].idle > maxAge
    /\ infos[1].connected /\ infos[2].connected
    /\ clients[1].isConnected /\ clients[1].detached = 0
    /\ ~clients[2].isConnected /\ clients[2].detached = 0

\* the requests that hold the session of client ref and have not answered yet
InFlightOn(ref) ==
    {r \in Requests : /\ rq[r].kind \in {"execute", "tools"}
                      /\ rq[r].ref = ref
                      /\ rq[r].pc \notin {"idle", "done"}}

\* C36: a run of the sweep removes no session that has a request in flight
C36_NoEvictionInFlight ==
    [][Sweep =>
        \A i \in 1..Len(mcpClients) :
            ~PoolHas(mcpClients', mcpClients[i].key)
                => InFlightOn(mcpClients[i].ref) = {}]_vars

\* C37: for a command whose discovery probe timed out and whose connect in
\* /execute failed, the probe was given the longer timeout exactly if the
\* failed connect was retried
C37_SameClassification ==
    \A r \in Requests :
        \A i \in ProbeIndexes :
            (/\ rq[r].kind = "execute"
             /\ "connect_fail" \in Range(rq[r].log)
             /\ rq[r].pc # "connecting"
             /\ disc.probes[i].fate = "timeout"
             /\ disc.config[i].config.command = rq[r].cmd)
                => (disc.probes[i].settled.message[2] = 8000
                       <=> "delay" \in Range(rq[r].log) \/ rq[r].pc = "retry_delay")

\* C38: the client of a pool entry whose connected flag is set is connected
C38_ConnectedFlagTrue ==
    \A i \in 1..Len(mcpClients) :
        infos[mcpClients[i].ref].connected => clients[mcpClients[i].ref].isConnected

\* C39: a /disconnect that has answered has answered success, and no entry of
\* its sessionId is left in the pool
C39_DisconnectCompletes ==
    \A d \in Requests :
        (rq[d].kind = "disconnect" /\ rq[d].pc = "done") =>
            /\ rq[d].resp[1].success
            /\ MatchingKeys(mcpClients, rq[d].body[1]) = <<>>

====
